---- MODULE Spec2Model ----
(***************************************************************************)
(* Model of the recommendation engine of the ebook backend                 *)
(* (backend/app/services/recommendations.py) over the repository described *)
(* by the initial schema (backend/alembic/versions/001_initial_schema.py). *)
(*                                                                         *)
(* The repository is the pair (books, interactions).  Writers outside the  *)
(* engine change it; each public operation of the engine is one action     *)
(* that reads the repository and leaves its outcome in `call`.  `cache` is *)
(* the recommendations namespace of the Redis cache                        *)
(* (backend/app/services/cache.py), `redis` the strings stored under the   *)
(* keys of the functions decorated with `cached`, and `wrapped` the last   *)
(* call of such a function.                                                *)
(***************************************************************************)
EXTENDS Integers, Sequences, FiniteSets, TLC

VARIABLES books, interactions, now, dbNow, call, cache, redis, wrapped

vars == <<books, interactions, now, dbNow, call, cache, redis, wrapped>>

(***************************************************************************)
(* Bounds of the model.                                                    *)
(***************************************************************************)
MaxInteractions == 4
MaxLimit == 2
MaxTime == 2
MaxDays == 1

\* all orderings of the set S as sequences without repetition
Orderings(S) ==
    {f \in [1..Cardinality(S) -> S] : \A i, j \in 1..Cardinality(S) : i # j => f[i] # f[j]}

Users == {"u1", "u2"}
BookIds == {"b1", "b2", "b3"}
\* an id no book row carries
MissingId == "b0"
Categories == {"c1"}
NoCategory == "None"
TagSets == {{}, {"t1"}}
\* the interaction kinds the writers of the model record, per user: u1 views
\* and likes, u2 likes and downloads
Kinds == {"view", "like", "download"}
KindsOf(u) == IF u = "u1" THEN {"view", "like"} ELSE {"like", "download"}
\* the ids of the wide catalogue, which has more books than a scorer delivers
WideBookIds == BookIds \cup {"b4", "b5", "b6"}
AllOrders == Orderings(BookIds)
\* over the wide catalogue: by ascending and by descending id
WideOrders == {<<"b1", "b2", "b3", "b4", "b5", "b6">>,
               <<"b6", "b5", "b4", "b3", "b2", "b1">>}
\* the orders in which the database may return the book rows
RowOrders == IF DOMAIN books = BookIds THEN AllOrders ELSE WideOrders
Limits == 0..MaxLimit
ExcludeSets == {{}} \cup {{b} : b \in BookIds}

(***************************************************************************)
(* Program constants.                                                      *)
(***************************************************************************)
BookStatus == {"draft", "completed"}
COMPLETED == "completed"
InteractionType == {"view", "like", "bookmark", "download", "share"}
LIKE == "like"
DOWNLOAD == "download"
SimilarUsersLimit == 50
UserBooksLimit == 20

(***************************************************************************)
(* Sequences and sorting.                                                  *)
(***************************************************************************)
Min(a, b) == IF a < b THEN a ELSE b

\* mutant: the slice and the LIMIT are lost
TakeAll(seq, n) == seq

\* seq[:n] for n >= 0
Take(seq, n) == SubSeq(seq, 1, Min(n, Len(seq)))

Range(seq) == {seq[i] : i \in 1..Len(seq)}

\* the rows of `order` that lie in S, in the order of `order`
Restrict(order, S) == SelectSeq(order, LAMBDA x : x \in S)

\* mutant: a sort that is not stable, equal keys come out in reverse order
SortedDescUnstable(seq, key) ==
    LET n == Len(seq)
        rank(i) == Cardinality({j \in 1..n :
                        \/ key[seq[j]] > key[seq[i]]
                        \/ key[seq[j]] = key[seq[i]] /\ j >= i})
    IN  [r \in 1..n |-> seq[CHOOSE i \in 1..n : rank(i) = r]]

\* sorted(seq, key=..., reverse=True): descending by key[x], equal keys keep
\* the order they have in seq
SortedDesc(seq, key) ==
    LET n == Len(seq)
        rank(i) == Cardinality({j \in 1..n :
                        \/ key[seq[j]] > key[seq[i]]
                        \/ key[seq[j]] = key[seq[i]] /\ j <= i})
    IN  [r \in 1..n |-> seq[CHOOSE i \in 1..n : rank(i) = r]]

\* SELECT ... GROUP BY id ORDER BY key DESC: the ids of S descending by key;
\* SQL leaves the order of equal keys to the database, `order` is the order
\* the database happens to use for this statement
OrderByDesc(S, key, order) == SortedDesc(Restrict(order, S), key)

(***************************************************************************)
(* The repository.                                                         *)
(***************************************************************************)
BookRow == [status : BookStatus, owner : Users,
            category : Categories \cup {NoCategory}, tags : TagSets]

InteractionRow == [user : Users, book : DOMAIN books, kind : Kinds, created_at : 0..MaxTime]

\* ix_interactions_user_book_type is unique
UniqueUserBookType(rows) ==
    \A i, j \in rows :
        (i.user = j.user /\ i.book = j.book /\ i.kind = j.kind) => i = j

\* mutant: every status but draft passes, and so does draft
CompletedAny(b) == books[b].status \in BookStatus

\* Book.status == BookStatus.COMPLETED
Completed(b) == books[b].status = COMPLETED

\* COUNT(user_interactions.id) per book over the rows
CountPerBook(rows) == [b \in DOMAIN books |-> Cardinality({i \in rows : i.book = b})]

\* mutant: the exclusion added after .limit() is lost
not_in_exclude_dropped(b, exclude_book_ids) == TRUE

\* if exclude_book_ids: query = query.where(Book.id.not_in(exclude_book_ids))
not_in_exclude(b, exclude_book_ids) ==
    exclude_book_ids # {} => b \notin exclude_book_ids

(***************************************************************************)
(* PopularityRanker.                                                       *)
(***************************************************************************)
\* mutant: join instead of outerjoin, a book without interactions has no row
_get_popular_books_innerjoin(limit, exclude_book_ids, category, order) ==
    LET eligible == {b \in DOMAIN books :
                        /\ Completed(b)
                        /\ \E i \in interactions : i.book = b
                        /\ (category # NoCategory => books[b].category = category)
                        /\ not_in_exclude(b, exclude_book_ids)}
        count == CountPerBook(interactions)
    IN  Take(OrderByDesc(eligible, count, order), limit)

_get_popular_books(limit, exclude_book_ids, category, order) ==
    LET eligible == {b \in DOMAIN books :
                        /\ Completed(b)
                        /\ (category # NoCategory => books[b].category = category)
                        /\ not_in_exclude(b, exclude_book_ids)}
        count == CountPerBook(interactions)
    IN  Take(OrderByDesc(eligible, count, order), limit)

(***************************************************************************)
(* TrendingRanker: the single statement of get_trending_books.             *)
(***************************************************************************)
\* mutant: the condition on created_at is missing
TrendingQueryAllTime(days, limit, order) ==
    LET rows == {i \in interactions : Completed(i.book)}
        count == CountPerBook(rows)
    IN  Take(OrderByDesc({i.book : i \in rows}, count, order), limit)

TrendingQuery(days, limit, order) ==
    LET cutoff_date == now - days
        rows == {i \in interactions :
                    i.created_at >= cutoff_date /\ Completed(i.book)}
        count == CountPerBook(rows)
    IN  Take(OrderByDesc({i.book : i \in rows}, count, order), limit)

(***************************************************************************)
(* _get_user_interactions: the keys of the returned dict (the books the    *)
(* user has a row for); the weights stored under them are never read by    *)
(* the ranking.  Weights are in tenths.                                    *)
(***************************************************************************)
_get_interaction_weight(interaction_type) ==
    CASE interaction_type = "download" -> 50
      [] interaction_type = "like"     -> 30
      [] interaction_type = "bookmark" -> 25
      [] interaction_type = "share"    -> 20
      [] interaction_type = "view"     -> 10
      [] OTHER                         -> 10

\* mutant: only the strong interactions are read
_get_user_interactions_strong(user_id) ==
    {i.book : i \in {j \in interactions : j.user = user_id /\ j.kind \in {"like", "download"}}}

_get_user_interactions(user_id) ==
    {i.book : i \in {j \in interactions : j.user = user_id}}

(***************************************************************************)
(* CollaborativeScorer.  A scorer returns [rows, queries]: the list of     *)
(* (book, score) pairs and the statements it executed.                     *)
(***************************************************************************)
Strong == {LIKE, DOWNLOAD}

UserOrder == <<"u1", "u2">>

similar_users_query(user_id, user_liked_books) ==
    LET rows == {i \in interactions :
                    /\ i.book \in user_liked_books
                    /\ i.kind \in Strong
                    /\ i.user # user_id}
        count == [u \in Users |-> Cardinality({i \in rows : i.user = u})]
    IN  Range(Take(SortedDesc(Restrict(UserOrder, {i.user : i \in rows}), count),
                   SimilarUsersLimit))

\* user_likes_query: the books the user liked or downloaded
user_likes_query(user_id) ==
    {i.book : i \in {j \in interactions : j.user = user_id /\ j.kind \in Strong}}

\* a list of books with their scores as the list of (book, score) pairs
Scored(ranked, score) ==
    [n \in 1..Len(ranked) |-> [book |-> ranked[n], score |-> score[ranked[n]]]]

\* rec_query: the books the similar users liked or downloaded, by count
rec_query(user_id, similar_user_ids, limit, exclude_book_ids, order) ==
    LET rows == {i \in interactions :
                    /\ i.user \in similar_user_ids
                    /\ i.kind \in Strong
                    /\ Completed(i.book)
                    /\ books[i.book].owner # user_id
                    /\ not_in_exclude(i.book, exclude_book_ids)}
        score == CountPerBook(rows)
    IN  Scored(Take(OrderByDesc({i.book : i \in rows}, score, order), limit * 2), score)

_collaborative_filtering(user_id, limit, exclude_book_ids, order) ==
    LET user_liked_books == user_likes_query(user_id)
        similar_user_ids == similar_users_query(user_id, user_liked_books)
    IN  IF user_liked_books = {}
        THEN [rows |-> <<>>, queries |-> <<"user_likes">>]
        ELSE IF similar_user_ids = {}
        THEN [rows |-> <<>>, queries |-> <<"user_likes", "similar_users">>]
        ELSE [rows |-> rec_query(user_id, similar_user_ids, limit, exclude_book_ids, order),
              queries |-> <<"user_likes", "similar_users", "collab_candidates">>]

(***************************************************************************)
(* ContentScorer.                                                          *)
(***************************************************************************)
\* (category_score + tag_score) of a book against a reference
content_score(b, user_categories, user_tags) ==
    (IF books[b].category \in user_categories THEN 3 ELSE 0)
    + (IF books[b].tags \cap user_tags # {} THEN 5 ELSE 0)

\* SELECT book JOIN user_interactions WHERE user_id = ... LIMIT 20: one row per
\* interaction of the user on a completed book
user_books_query(user_id, order) ==
    LET KindOrder == <<"view", "like", "bookmark", "download", "share">>
        joined == {i \in interactions : i.user = user_id /\ Completed(i.book)}
        perBook(b) == SelectSeq(KindOrder,
                        LAMBDA k : \E i \in joined : i.book = b /\ i.kind = k)
        RECURSIVE rowsOf(_)
        rowsOf(bs) == IF bs = <<>> THEN <<>>
                      ELSE [k \in 1..Len(perBook(Head(bs))) |-> Head(bs)]
                           \o rowsOf(Tail(bs))
    IN  Take(rowsOf(order), UserBooksLimit)

\* candidate_query: the other completed books scored against the tags and
\* categories of user_books
candidate_query(user_id, user_books, limit, exclude_book_ids, order) ==
    LET user_tags == UNION {books[b].tags : b \in user_books}
        user_categories == {books[b].category : b \in user_books} \ {NoCategory}
        candidates == {b \in DOMAIN books :
                        /\ b \notin user_books
                        /\ Completed(b)
                        /\ books[b].owner # user_id
                        /\ not_in_exclude(b, exclude_book_ids)}
        score == [b \in DOMAIN books |-> content_score(b, user_categories, user_tags)]
    IN  Scored(Take(OrderByDesc(candidates, score, order), limit * 2), score)

_content_based_filtering(user_id, limit, exclude_book_ids, order) ==
    LET user_books == Range(user_books_query(user_id, order))
    IN  IF user_books = {}
        THEN [rows |-> <<>>, queries |-> <<"user_books">>]
        ELSE [rows |-> candidate_query(user_id, user_books, limit, exclude_book_ids, order),
              queries |-> <<"user_books", "content_candidates">>]

(***************************************************************************)
(* ScoreCombiner.  Scores are IEEE-754 doubles in the program.  A score    *)
(* c * 0.6 + t * 0.4 is represented by 4 * (6c + 4t) + d, i.e. in units of *)
(* 1/40, where d in {-1, 0, 1} is the distance in ulps between the double  *)
(* the program computes and the double nearest to the exact value: the     *)
(* representation orders scores exactly as the doubles are ordered.        *)
(***************************************************************************)
UlpOffset(c, t) ==
    CASE <<c, t>> \in {<<0, 3>>, <<1, 3>>, <<1, 8>>, <<2, 3>>} -> 1
      [] <<c, t>> \in {<<3, 0>>, <<6, 0>>, <<9, 0>>, <<9, 5>>} -> -1
      [] OTHER -> 0

\* 0 + collab * 0.6 + content * 0.4
WeightedSum64(collab, content) == 4 * (6 * collab + 4 * content) + UlpOffset(collab, content)

\* content * 0.5 + collab * 0.5 (exact in binary)
WeightedSum55(content, collab) == 4 * (5 * content + 5 * collab)

ScoreIn(recs, b) ==
    IF \E n \in 1..Len(recs) : recs[n].book = b
    THEN recs[CHOOSE n \in 1..Len(recs) : recs[n].book = b].score
    ELSE 0

BooksOf(recs) == [n \in 1..Len(recs) |-> recs[n].book]

\* mutant: the content score replaces the collaborative score of a book that
\* is in both lists
combined_scores_overwritten(collab_recs, content_recs) ==
    [b \in Range(BooksOf(collab_recs)) \cup Range(BooksOf(content_recs)) |->
        IF b \in Range(BooksOf(content_recs))
        THEN WeightedSum64(0, ScoreIn(content_recs, b))
        ELSE WeightedSum64(ScoreIn(collab_recs, b), 0)]

\* the dict `scores` of _combine_recommendations
combined_scores(collab_recs, content_recs) ==
    [b \in Range(BooksOf(collab_recs)) \cup Range(BooksOf(content_recs)) |->
        WeightedSum64(ScoreIn(collab_recs, b), ScoreIn(content_recs, b))]

\* mutant: reverse=True forgotten
_combine_recommendations_ascending(collab_recs, content_recs) ==
    LET sorted == SortedDesc(BooksOf(collab_recs \o content_recs),
                             combined_scores(collab_recs, content_recs))
    IN  [n \in 1..Len(sorted) |-> sorted[Len(sorted) + 1 - n]]

_combine_recommendations(collab_recs, content_recs) ==
    SortedDesc(BooksOf(collab_recs \o content_recs),
               combined_scores(collab_recs, content_recs))

(***************************************************************************)
(* Similar books.                                                          *)
(***************************************************************************)
\* mutant: Book.id != source_book.id is missing from the statement
_find_content_similar_books_with_source(source_book, limit, order) ==
    LET user_categories == {books[source_book].category} \ {NoCategory}
        user_tags == books[source_book].tags
        candidates == {b \in DOMAIN books : Completed(b)}
        score == [b \in DOMAIN books |-> content_score(b, user_categories, user_tags)]
        ranked == Take(OrderByDesc(candidates, score, order), limit)
    IN  IF user_categories = {} /\ user_tags = {}
        THEN [rows |-> <<>>, queries |-> <<>>, error |-> "none"]
        ELSE [rows |-> [n \in 1..Len(ranked) |->
                            [book |-> ranked[n], score |-> score[ranked[n]]]],
              queries |-> <<"content_similar">>, error |-> "none"]

_find_content_similar_books(source_book, limit, order) ==
    LET user_categories == {books[source_book].category} \ {NoCategory}
        user_tags == books[source_book].tags
        candidates == {b \in DOMAIN books : b # source_book /\ Completed(b)}
        score == [b \in DOMAIN books |-> content_score(b, user_categories, user_tags)]
        ranked == Take(OrderByDesc(candidates, score, order), limit)
    IN  IF user_categories = {} /\ user_tags = {}
        THEN [rows |-> <<>>, queries |-> <<>>, error |-> "none"]
        ELSE [rows |-> [n \in 1..Len(ranked) |->
                            [book |-> ranked[n], score |-> score[ranked[n]]]],
              queries |-> <<"content_similar">>, error |-> "none"]

\* the statement that would rank the other books is never built: the
\* expression at line 401 reads the attribute `orderInteraction` of a Select,
\* which raises AttributeError
_find_collaborative_similar_books(book_id, limit, order) ==
    LET users_who_liked ==
            {i.user : i \in {j \in interactions : j.book = book_id /\ j.kind = LIKE}}
    IN  IF users_who_liked = {}
        THEN [rows |-> <<>>, queries |-> <<"users_who_liked">>, error |-> "none"]
        ELSE [rows |-> <<>>, queries |-> <<"users_who_liked">>,
              error |-> "AttributeError"]

\* the dict `scores` of _combine_similar_books
similar_scores(content_similar, collab_similar, source_book_id) ==
    [b \in Range(BooksOf(content_similar))
            \cup (Range(BooksOf(collab_similar)) \ {source_book_id}) |->
        WeightedSum55(ScoreIn(content_similar, b), ScoreIn(collab_similar, b))]

\* a dict keeps its keys in the order of first insertion
FirstOccurrences(seq) ==
    SelectSeq([n \in 1..Len(seq) |-> <<n, seq[n]>>],
              LAMBDA p : \A m \in 1..(p[1] - 1) : seq[m] # p[2])

KeysInOrder(seq) ==
    LET f == FirstOccurrences(seq) IN [n \in 1..Len(f) |-> f[n][2]]

_combine_similar_books(content_similar, collab_similar, source_book_id) ==
    LET scores == similar_scores(content_similar, collab_similar, source_book_id)
        keys == KeysInOrder(BooksOf(content_similar)
                    \o SelectSeq(BooksOf(collab_similar), LAMBDA b : b # source_book_id))
    IN  SortedDesc(keys, scores)

NoScores == [b \in {} |-> 0]

\* the local variables of a call that is suspended at a statement
NoLocals == [user_interactions |-> {}, user_liked_books |-> {},
             similar_user_ids |-> {}, collab_recs |-> <<>>, user_books |-> {},
             content_recs |-> <<>>, content_similar |-> <<>>,
             collab_similar |-> <<>>]

\* pc is the statement the call executes next ("done" once it has returned or
\* raised), failed the statement on which the repository raised, order the
\* order the database uses for unordered rows during the call, writes the
\* number of writes to the repository since the call started, atomic the
\* outcomes the call would have if it ran without suspension on one of the
\* repositories that existed between its start and the latest write
NoCall == [op |-> "none", user |-> "-", book |-> "-", limit |-> 0, days |-> 0,
           category |-> NoCategory, exclude |-> {}, result |-> <<>>,
           error |-> "none", queries |-> <<>>, scores |-> NoScores,
           pc |-> "done", failed |-> "none", order |-> <<>>, atomic |-> {},
           writes |-> 0, locals |-> NoLocals]

(***************************************************************************)
(* The cache: the entries under the keys recommendations:<user_id>.  An    *)
(* entry carries the list that was stored and, for the properties, whether *)
(* a book of the list changed status since the list was computed.          *)
(***************************************************************************)
NoEntry == [present |-> FALSE, list |-> <<>>, outdated |-> FALSE]

NoCache == [u \in Users |-> NoEntry]

(***************************************************************************)
(* The decorator `cached` over the Redis store.  redis holds the string    *)
(* stored under each key of a decorated function, wrapped the last call of *)
(* the wrapper with what it was given and what it did.  Python values and  *)
(* Redis strings are named by strings.                                     *)
(***************************************************************************)
CacheKeys == {"k1", "k2"}

\* redis.get of a key that is not set returns None
Absent == "absent"

\* the values a decorated function returns: None, a number, a list of plain
\* values, an object json cannot serialize (default=str turns it into a
\* string), a structure with a circular reference
FuncResults == {"None", "0", "list", "obj", "cyclic"}

\* the decorated function raises instead of returning
Raises == "raises"

\* strings that are not JSON documents
Garbage == {"{"}

\* the strings a key can hold
RawValues == {"", "null", "0", "[1]", "\"obj\""} \cup Garbage

\* json.dumps(value, default=str); "ValueError" for a circular reference
dumps(value) ==
    CASE value = "None"   -> "null"
      [] value = "0"      -> "0"
      [] value = "list"   -> "[1]"
      [] value = "obj"    -> "\"obj\""
      [] value = "str"    -> "\"obj\""
      [] OTHER            -> "ValueError"

\* json.loads(raw); "JSONDecodeError" for a string that is no document
loads(raw) ==
    CASE raw = "null"      -> "None"
      [] raw = "0"         -> "0"
      [] raw = "[1]"       -> "list"
      [] raw = "\"obj\""   -> "str"
      [] OTHER             -> "JSONDecodeError"

PyErrors == {"ValueError", "JSONDecodeError", "ConnectionError"}

\* self._enabled is set in __init__ and never changed
_enabled == TRUE

\* mutant: CacheService.get without its try/except
get_unguarded(raw, fault) ==
    IF ~ _enabled THEN [value |-> "None", error |-> "none"]
    ELSE IF fault THEN [value |-> "None", error |-> "ConnectionError"]
    ELSE IF raw \in {Absent, ""} THEN [value |-> "None", error |-> "none"]
    ELSE IF loads(raw) \in PyErrors THEN [value |-> "None", error |-> loads(raw)]
    ELSE [value |-> loads(raw), error |-> "none"]

\* CacheService.get on a key that holds raw; fault: the Redis call raises
get(raw, fault) ==
    IF ~ _enabled THEN [value |-> "None", error |-> "none"]
    ELSE IF fault THEN [value |-> "None", error |-> "none"]
    ELSE IF raw \in {Absent, ""} THEN [value |-> "None", error |-> "none"]
    ELSE IF loads(raw) \in PyErrors THEN [value |-> "None", error |-> "none"]
    ELSE [value |-> loads(raw), error |-> "none"]

\* CacheService.set on a key that holds raw: the string the key holds after it
set(raw, value, fault) ==
    IF ~ _enabled THEN [raw |-> raw, error |-> "none"]
    ELSE IF dumps(value) \in PyErrors THEN [raw |-> raw, error |-> "none"]
    ELSE IF fault THEN [raw |-> raw, error |-> "none"]
    ELSE [raw |-> dumps(value), error |-> "none"]

NoRedis == [k \in CacheKeys |-> Absent]

\* service: _cache_service was passed; skip: the skip parameter is set; func:
\* what the decorated function returns or Raises; read_fault and write_fault:
\* the Redis call of get and of set raises; before: the string under the key
\* when the call started; calls: how often the decorated function was called;
\* stored: the string the key holds when the call ends
NoWrapped == [op |-> "none", key |-> "-", service |-> FALSE, skip |-> FALSE,
              func |-> "None", read_fault |-> FALSE, write_fault |-> FALSE,
              before |-> Absent, calls |-> 0, returned |-> "None",
              error |-> "none", stored |-> Absent]

\* the body of wrapper
wrapper_outcome(key, service, skip, func, read_fault, write_fault) ==
    LET this == [NoWrapped EXCEPT !.op = "wrapper", !.key = key, !.service = service,
                                  !.skip = skip, !.func = func,
                                  !.read_fault = read_fault,
                                  !.write_fault = write_fault,
                                  !.before = redis[key], !.stored = redis[key]]
        called == IF func = Raises
                  THEN [this EXCEPT !.calls = 1, !.error = "func"]
                  ELSE [this EXCEPT !.calls = 1, !.returned = func]
        cached_value == get(redis[key], read_fault)
        written == set(redis[key], func, write_fault)
    IN  IF ~ service THEN called
        ELSE IF skip THEN called
        ELSE IF cached_value.error # "none" THEN [this EXCEPT !.error = cached_value.error]
        ELSE IF cached_value.value # "None"
        THEN [this EXCEPT !.returned = cached_value.value]
        ELSE IF func = Raises THEN called
        ELSE IF func = "None" THEN called
        ELSE IF written.error # "none"
        THEN [called EXCEPT !.returned = "None", !.error = written.error]
        ELSE [called EXCEPT !.stored = written.raw]

\* a call of a decorated function
wrapper(key, service, skip, func, read_fault, write_fault) ==
    /\ wrapped.op = "none"
    /\ wrapped' = wrapper_outcome(key, service, skip, func, read_fault, write_fault)
    /\ redis' = [redis EXCEPT ![key] = wrapped'.stored]
    /\ UNCHANGED <<books, interactions, now, dbNow, call, cache>>

\* the caller takes the value or the exception
wrapper_return ==
    /\ wrapped.op # "none"
    /\ wrapped' = NoWrapped
    /\ UNCHANGED <<books, interactions, now, dbNow, call, cache, redis>>

\* another client of the store sets a key
setex(key, raw) ==
    /\ wrapped.op = "none"
    /\ redis[key] # raw
    /\ redis' = [redis EXCEPT ![key] = raw]
    /\ UNCHANGED <<books, interactions, now, dbNow, call, cache, wrapped>>

\* the TTL of a key runs out
expire_key(key) ==
    /\ wrapped.op = "none"
    /\ redis[key] # Absent
    /\ redis' = [redis EXCEPT ![key] = Absent]
    /\ UNCHANGED <<books, interactions, now, dbNow, call, cache, wrapped>>

(***************************************************************************)
(* Actions: the writers of the repository (outside the engine).  A writer  *)
(* runs between two calls of the engine.                                   *)
(***************************************************************************)
SetStatus(b, s) ==
    /\ call.op = "none"
    /\ books[b].status # s
    /\ books' = [books EXCEPT ![b].status = s]
    /\ UNCHANGED <<interactions, now, dbNow, call, cache, redis, wrapped>>

\* created_at has the server default now(): the clock of the database
RecordInteraction(u, b, k) ==
    /\ call.op = "none"
    /\ Cardinality(interactions) < MaxInteractions
    /\ ~ \E i \in interactions : i.user = u /\ i.book = b /\ i.kind = k
    /\ interactions' = interactions \cup
            {[user |-> u, book |-> b, kind |-> k, created_at |-> dbNow]}
    /\ UNCHANGED <<books, now, dbNow, call, cache, redis, wrapped>>

\* the clock of the application host (datetime.utcnow())
Tick ==
    /\ call.op = "none"
    /\ now < MaxTime
    /\ now' = now + 1
    /\ UNCHANGED <<books, interactions, dbNow, call, cache, redis, wrapped>>

\* the clock of the database host (now())
TickDb ==
    /\ call.op = "none"
    /\ dbNow < MaxTime
    /\ dbNow' = dbNow + 1
    /\ UNCHANGED <<books, interactions, now, call, cache, redis, wrapped>>

(***************************************************************************)
(* Actions: the public operations of the engine.  `order` is the order in  *)
(* which the database returns rows that the statement does not order.      *)
(***************************************************************************)
\* the body of get_personalized_recommendations: the outcome of one call
personalized_outcome(user_id, limit, exclude_book_ids, order) ==
    LET user_interactions == _get_user_interactions(user_id)
        collab_recs == _collaborative_filtering(user_id, limit * 2, exclude_book_ids, order)
        content_recs == _content_based_filtering(user_id, limit * 2, exclude_book_ids, order)
        combined == _combine_recommendations(collab_recs.rows, content_recs.rows)
        this == [NoCall EXCEPT !.op = "get_personalized_recommendations",
                               !.user = user_id, !.limit = limit,
                               !.exclude = exclude_book_ids]
    IN  IF user_interactions = {}
        THEN [this EXCEPT
                !.result = _get_popular_books(limit, exclude_book_ids, NoCategory, order),
                !.queries = <<"user_interactions", "popular_books">>]
        ELSE [this EXCEPT
                !.result = Take(combined, limit),
                !.queries = <<"user_interactions">> \o collab_recs.queries
                                \o content_recs.queries,
                !.scores = combined_scores(collab_recs.rows, content_recs.rows)]

get_personalized_recommendations(user_id, limit, exclude_book_ids) ==
    /\ call.op = "none"
    /\ \E order \in RowOrders :
        call' = personalized_outcome(user_id, limit, exclude_book_ids, order)
    /\ UNCHANGED <<books, interactions, now, dbNow, cache, redis, wrapped>>

\* get_similar_books once the source book is found
similar_books_found(book_id, limit, order) ==
    LET content_similar == _find_content_similar_books(book_id, limit * 2, order)
        collab_similar == _find_collaborative_similar_books(book_id, limit * 2, order)
        similar_books == _combine_similar_books(content_similar.rows,
                                                collab_similar.rows, book_id)
        this == [NoCall EXCEPT !.op = "get_similar_books",
                               !.book = book_id, !.limit = limit,
                               !.queries = <<"source_book">> \o content_similar.queries
                                                \o collab_similar.queries]
    IN  IF collab_similar.error # "none"
        THEN [this EXCEPT !.error = collab_similar.error]
        ELSE [this EXCEPT
                !.result = Take(similar_books, limit),
                !.scores = similar_scores(content_similar.rows,
                                          collab_similar.rows, book_id)]

\* mutant: scalar_one() instead of scalar_one_or_none(), a missing row raises
similar_books_scalar_one(book_id, limit, order) ==
    IF book_id \notin DOMAIN books
    THEN [NoCall EXCEPT !.op = "get_similar_books", !.book = book_id,
                        !.limit = limit, !.queries = <<"source_book">>,
                        !.error = "NoResultFound"]
    ELSE similar_books_found(book_id, limit, order)

\* the body of get_similar_books: the outcome of one call
similar_books_outcome(book_id, limit, order) ==
    IF book_id \notin DOMAIN books
    THEN [NoCall EXCEPT !.op = "get_similar_books", !.book = book_id,
                        !.limit = limit, !.queries = <<"source_book">>]
    ELSE similar_books_found(book_id, limit, order)

\* mutant: the lookup of an existing source book is recorded as a view
get_similar_books_recording(book_id, limit) ==
    /\ call.op = "none"
    /\ \E order \in RowOrders : call' = similar_books_outcome(book_id, limit, order)
    /\ interactions' =
            IF book_id \in DOMAIN books
            THEN interactions \cup {[user |-> "u1", book |-> book_id,
                                     kind |-> "view", created_at |-> dbNow]}
            ELSE interactions
    /\ UNCHANGED <<books, now, dbNow, cache, redis, wrapped>>

get_similar_books(book_id, limit) ==
    /\ call.op = "none"
    /\ \E order \in RowOrders : call' = similar_books_outcome(book_id, limit, order)
    /\ UNCHANGED <<books, interactions, now, dbNow, cache, redis, wrapped>>

\* the body of get_popular_books
popular_outcome(limit, category, exclude_book_ids, order) ==
    [NoCall EXCEPT
        !.op = "get_popular_books", !.limit = limit,
        !.category = category, !.exclude = exclude_book_ids,
        !.result = _get_popular_books(limit, exclude_book_ids, category, order),
        !.queries = <<"popular_books">>]

get_popular_books(limit, category, exclude_book_ids) ==
    /\ call.op = "none"
    /\ \E order \in RowOrders :
        call' = popular_outcome(limit, category, exclude_book_ids, order)
    /\ UNCHANGED <<books, interactions, now, dbNow, cache, redis, wrapped>>

\* the body of get_trending_books
trending_outcome(days, limit, order) ==
    [NoCall EXCEPT
        !.op = "get_trending_books", !.days = days, !.limit = limit,
        !.result = TrendingQuery(days, limit, order),
        !.queries = <<"trending_books">>]

get_trending_books(days, limit) ==
    /\ call.op = "none"
    /\ \E order \in RowOrders : call' = trending_outcome(days, limit, order)
    /\ UNCHANGED <<books, interactions, now, dbNow, cache, redis, wrapped>>

\* the outcome of the call `c` if it is made again on the current repository
\* and the database orders unordered rows by `order`
Again(c, order) ==
    CASE c.op = "get_personalized_recommendations" ->
            personalized_outcome(c.user, c.limit, c.exclude, order)
      [] c.op = "get_similar_books" -> similar_books_outcome(c.book, c.limit, order)
      [] c.op = "get_popular_books" ->
            popular_outcome(c.limit, c.category, c.exclude, order)
      [] c.op = "get_trending_books" -> trending_outcome(c.days, c.limit, order)
      [] OTHER -> c

\* the caller takes the list; the engine keeps nothing of the call
Return ==
    /\ call.op # "none"
    /\ call.pc = "done"
    /\ call' = NoCall
    /\ UNCHANGED <<books, interactions, now, dbNow, cache, redis, wrapped>>

(***************************************************************************)
(* The operations statement by statement.  A public operation is a         *)
(* coroutine that is suspended at every `await self.db.execute(...)`; the  *)
(* writers of the repository run while it is suspended.  No statement of   *)
(* the engine is inside a try block.                                       *)
(***************************************************************************)
MaxWrites == 2

\* the two ways a call can end: the list it returns or the error it raises
Ending(c) == [result |-> c.result, error |-> c.error]

\* the endings of the call c run without suspension on the current repository
AtomicEndings(c) == {Ending(Again(c, order)) : order \in RowOrders}

\* the call is set up: nothing is read before the first statement
Started(c, first, order) ==
    [c EXCEPT !.pc = first, !.order = order]

start_personalized(user_id, limit, exclude_book_ids) ==
    /\ call.op = "none"
    /\ \E order \in RowOrders :
        call' = Started([NoCall EXCEPT !.op = "get_personalized_recommendations",
                                       !.user = user_id, !.limit = limit,
                                       !.exclude = exclude_book_ids],
                        "user_interactions", order)
    /\ UNCHANGED <<books, interactions, now, dbNow, cache, redis, wrapped>>

start_similar(book_id, limit) ==
    /\ call.op = "none"
    /\ \E order \in RowOrders :
        call' = Started([NoCall EXCEPT !.op = "get_similar_books",
                                       !.book = book_id, !.limit = limit],
                        "source_book", order)
    /\ UNCHANGED <<books, interactions, now, dbNow, cache, redis, wrapped>>

start_popular(limit, category, exclude_book_ids) ==
    /\ call.op = "none"
    /\ \E order \in RowOrders :
        call' = Started([NoCall EXCEPT !.op = "get_popular_books", !.limit = limit,
                                       !.category = category,
                                       !.exclude = exclude_book_ids],
                        "popular_books", order)
    /\ UNCHANGED <<books, interactions, now, dbNow, cache, redis, wrapped>>

start_trending(days, limit) ==
    /\ call.op = "none"
    /\ \E order \in RowOrders :
        call' = Started([NoCall EXCEPT !.op = "get_trending_books",
                                       !.days = days, !.limit = limit],
                        "trending_books", order)
    /\ UNCHANGED <<books, interactions, now, dbNow, cache, redis, wrapped>>

\* the end of get_personalized_recommendations once both scorers returned
personalized_return(c, content_recs) ==
    [c EXCEPT !.pc = "done",
              !.result = Take(_combine_recommendations(c.locals.collab_recs, content_recs),
                              c.limit),
              !.scores = combined_scores(c.locals.collab_recs, content_recs)]

\* the end of get_similar_books once both finders returned
similar_return(c, collab_similar) ==
    IF collab_similar.error # "none"
    THEN [c EXCEPT !.pc = "done", !.error = collab_similar.error]
    ELSE [c EXCEPT !.pc = "done",
                   !.result = Take(_combine_similar_books(c.locals.content_similar,
                                                          collab_similar.rows, c.book),
                                   c.limit),
                   !.scores = similar_scores(c.locals.content_similar,
                                             collab_similar.rows, c.book)]

\* the call c after its statement c.pc has been executed on the current
\* repository and the code up to the next statement has run
executed(c) ==
    LET q == [c EXCEPT !.queries = @ \o <<c.pc>>]
    IN  CASE c.pc = "user_interactions" ->
                LET user_interactions == _get_user_interactions(c.user)
                IN  [q EXCEPT !.locals.user_interactions = user_interactions,
                              !.pc = IF user_interactions = {}
                                     THEN "popular_books" ELSE "user_likes"]
          [] c.pc = "popular_books" ->
                [q EXCEPT !.pc = "done",
                          !.result = _get_popular_books(c.limit, c.exclude,
                                                        c.category, c.order)]
          [] c.pc = "user_likes" ->
                LET user_liked_books == user_likes_query(c.user)
                IN  [q EXCEPT !.locals.user_liked_books = user_liked_books,
                              !.pc = IF user_liked_books = {}
                                     THEN "user_books" ELSE "similar_users"]
          [] c.pc = "similar_users" ->
                LET similar_user_ids ==
                        similar_users_query(c.user, c.locals.user_liked_books)
                IN  [q EXCEPT !.locals.similar_user_ids = similar_user_ids,
                              !.pc = IF similar_user_ids = {}
                                     THEN "user_books" ELSE "collab_candidates"]
          [] c.pc = "collab_candidates" ->
                [q EXCEPT !.locals.collab_recs =
                                rec_query(c.user, c.locals.similar_user_ids,
                                          c.limit * 2, c.exclude, c.order),
                          !.pc = "user_books"]
          [] c.pc = "user_books" ->
                LET user_books == Range(user_books_query(c.user, c.order))
                IN  IF user_books = {}
                    THEN personalized_return(q, <<>>)
                    ELSE [q EXCEPT !.locals.user_books = user_books,
                                   !.pc = "content_candidates"]
          [] c.pc = "content_candidates" ->
                personalized_return(q,
                    candidate_query(c.user, c.locals.user_books,
                                    c.limit * 2, c.exclude, c.order))
          [] c.pc = "source_book" ->
                IF c.book \notin DOMAIN books
                THEN [q EXCEPT !.pc = "done"]
                ELSE IF books[c.book].category = NoCategory /\ books[c.book].tags = {}
                THEN [q EXCEPT !.pc = "users_who_liked"]
                ELSE [q EXCEPT !.pc = "content_similar"]
          [] c.pc = "content_similar" ->
                [q EXCEPT !.locals.content_similar =
                                _find_content_similar_books(c.book, c.limit * 2,
                                                            c.order).rows,
                          !.pc = "users_who_liked"]
          [] c.pc = "users_who_liked" ->
                similar_return(q, _find_collaborative_similar_books(c.book, c.limit * 2,
                                                                    c.order))
          [] c.pc = "trending_books" ->
                [q EXCEPT !.pc = "done",
                          !.result = TrendingQuery(c.days, c.limit, c.order)]

\* mutant: the exception of the statement is caught and an empty list returned
swallowed(c) ==
    [c EXCEPT !.pc = "done", !.failed = c.pc, !.queries = @ \o <<c.pc>>,
              !.result = <<>>]

\* the call c after its statement c.pc raised: the exception leaves the
\* operation
raised(c) ==
    [c EXCEPT !.pc = "done", !.failed = c.pc, !.queries = @ \o <<c.pc>>,
              !.error = "RepositoryFailure"]

\* await self.db.execute(...) returns
execute ==
    /\ call.pc # "done"
    /\ call' = executed(call)
    /\ UNCHANGED <<books, interactions, now, dbNow, cache, redis, wrapped>>

\* await self.db.execute(...) raises
execute_raises ==
    /\ call.pc # "done"
    /\ call' = raised(call)
    /\ UNCHANGED <<books, interactions, now, dbNow, cache, redis, wrapped>>

\* the writers while a call is suspended; the repository they replace is
\* remembered by the endings it would have given
SetStatusDuringCall(b, s) ==
    /\ call.pc # "done"
    /\ call.writes < MaxWrites
    /\ books[b].status # s
    /\ books' = [books EXCEPT ![b].status = s]
    /\ UNCHANGED <<interactions, now, dbNow, cache, redis, wrapped>>
    /\ call' = [call EXCEPT !.writes = @ + 1, !.atomic = @ \cup AtomicEndings(call)]

RecordInteractionDuringCall(u, b, k) ==
    /\ call.pc # "done"
    /\ call.writes < MaxWrites
    /\ Cardinality(interactions) < MaxInteractions
    /\ ~ \E i \in interactions : i.user = u /\ i.book = b /\ i.kind = k
    /\ interactions' = interactions \cup
            {[user |-> u, book |-> b, kind |-> k, created_at |-> dbNow]}
    /\ UNCHANGED <<books, now, dbNow, cache, redis, wrapped>>
    /\ call' = [call EXCEPT !.writes = @ + 1, !.atomic = @ \cup AtomicEndings(call)]

(***************************************************************************)
(* Actions: the cache of recommendations and the book service              *)
(* (backend/app/services/book_service.py).                                 *)
(***************************************************************************)
\* the caller of get_personalized_recommendations stores the list it got
warm_recommendations(user_id) ==
    /\ call.op = "get_personalized_recommendations"
    /\ call.user = user_id
    /\ call.pc = "done"
    /\ call.error = "none"
    /\ cache' = [cache EXCEPT ![user_id] =
                    [present |-> TRUE, list |-> call.result, outdated |-> FALSE]]
    /\ UNCHANGED <<books, interactions, now, dbNow, call, redis, wrapped>>

\* the entry reaches its time to live (CacheTTL.MEDIUM)
expire(user_id) ==
    /\ cache[user_id].present
    /\ cache' = [cache EXCEPT ![user_id] = NoEntry]
    /\ UNCHANGED <<books, interactions, now, dbNow, call, redis, wrapped>>

invalidate_user(user_id) ==
    /\ cache[user_id].present
    /\ cache' = [cache EXCEPT ![user_id] = NoEntry]
    /\ UNCHANGED <<books, interactions, now, dbNow, call, redis, wrapped>>

invalidate_book(book_id, user_id) ==
    /\ cache[user_id].present
    /\ cache' = [cache EXCEPT ![user_id] = NoEntry]
    /\ UNCHANGED <<books, interactions, now, dbNow, call, redis, wrapped>>

invalidate_all_books(user_id) ==
    /\ cache[user_id].present
    /\ cache' = [cache EXCEPT ![user_id] = NoEntry]
    /\ UNCHANGED <<books, interactions, now, dbNow, call, redis, wrapped>>

\* BookService.update_book(book_id, status=...): the attribute is set and
\* committed; the service does not touch the cache.  An entry whose list
\* holds the book is from now on outdated.
update_book(book_id, status) ==
    /\ call.op = "none"
    /\ books[book_id].status # status
    /\ books' = [books EXCEPT ![book_id].status = status]
    /\ cache' = [u \in Users |->
                    IF cache[u].present /\ book_id \in Range(cache[u].list)
                    THEN [cache[u] EXCEPT !.outdated = TRUE]
                    ELSE cache[u]]
    /\ UNCHANGED <<interactions, now, dbNow, call, redis, wrapped>>

(***************************************************************************)
(* Actions: the two combiners applied to lists of (book, score) pairs.     *)
(* A scorer delivers distinct books by descending score; collaborative     *)
(* scores are counts, content scores are sums of the two bonuses.          *)
(***************************************************************************)
MaxRecs == 2
MaxCount == 4

ContentScores == {0, 3, 5, 8}
CollabScores == 1..MaxCount

\* the lists of at most MaxRecs distinct books of S with scores of `scores`,
\* in descending order of score
ScoredLists(S, scores) ==
    UNION {{l \in [1..n -> [book : S, score : scores]] :
                /\ \A i, j \in 1..n : i # j => l[i].book # l[j].book
                /\ \A i, j \in 1..n : i < j => l[i].score >= l[j].score}
           : n \in 0..MaxRecs}

combine_recommendations(collab_recs, content_recs) ==
    /\ call.op = "none"
    /\ call' = [NoCall EXCEPT
                    !.op = "_combine_recommendations",
                    !.locals.collab_recs = collab_recs,
                    !.locals.content_recs = content_recs,
                    !.result = _combine_recommendations(collab_recs, content_recs),
                    !.scores = combined_scores(collab_recs, content_recs)]
    /\ UNCHANGED <<books, interactions, now, dbNow, cache, redis, wrapped>>

combine_similar_books(content_similar, collab_similar, source_book_id) ==
    /\ call.op = "none"
    /\ call' = [NoCall EXCEPT
                    !.op = "_combine_similar_books",
                    !.book = source_book_id,
                    !.locals.content_similar = content_similar,
                    !.locals.collab_similar = collab_similar,
                    !.result = _combine_similar_books(content_similar, collab_similar,
                                                      source_book_id),
                    !.scores = similar_scores(content_similar, collab_similar,
                                              source_book_id)]
    /\ UNCHANGED <<books, interactions, now, dbNow, cache, redis, wrapped>>

(***************************************************************************)
(* The catalogue: the columns of the book rows that the model's writers do *)
(* not change.                                                             *)
(***************************************************************************)
Catalogue ==
    [b \in BookIds |->
        CASE b = "b1" -> [owner |-> "u1", category |-> "c1", tags |-> {"t1"}]
          [] b = "b2" -> [owner |-> "u2", category |-> "c1", tags |-> {}]
          [] OTHER    -> [owner |-> "u2", category |-> NoCategory, tags |-> {"t1"}]]

BookWith(b, status) ==
    [status |-> status, owner |-> Catalogue[b].owner,
     category |-> Catalogue[b].category, tags |-> Catalogue[b].tags]

(***************************************************************************)
(* Spec: the four operations over a repository whose books change status   *)
(* and whose users record interactions; the clocks stand still.            *)
(***************************************************************************)
Init ==
    /\ books = [b \in BookIds |-> BookWith(b, "draft")]
    /\ interactions = {}
    /\ now = 0
    /\ dbNow = 0
    /\ call = NoCall
    /\ cache = NoCache
    /\ redis = NoRedis
    /\ wrapped = NoWrapped

Next ==
    \/ \E b \in BookIds, s \in BookStatus : SetStatus(b, s)
    \/ \E u \in Users, b \in BookIds : \E k \in KindsOf(u) : RecordInteraction(u, b, k)
    \/ \E user_id \in Users, limit \in Limits, exclude_book_ids \in ExcludeSets :
            get_personalized_recommendations(user_id, limit, exclude_book_ids)
    \/ \E book_id \in BookIds \cup {MissingId}, limit \in Limits :
            get_similar_books(book_id, limit)
    \/ \E limit \in Limits, category \in Categories \cup {NoCategory},
          exclude_book_ids \in ExcludeSets :
            get_popular_books(limit, category, exclude_book_ids)
    \/ \E days \in 0..MaxDays, limit \in Limits : get_trending_books(days, limit)
    \/ Return

Spec == Init /\ [][Next]_vars

(***************************************************************************)
(* SpecTrending: the trending ranker while both clocks advance; likes are  *)
(* recorded on the books of TrendingBooks.                                 *)
(***************************************************************************)
TrendingBooks == BookIds

InitTrending ==
    /\ books = [b \in BookIds |-> BookWith(b, COMPLETED)]
    /\ interactions = {}
    /\ now = 0
    /\ dbNow = 0
    /\ call = NoCall
    /\ cache = NoCache
    /\ redis = NoRedis
    /\ wrapped = NoWrapped

NextTrending ==
    \/ \E s \in BookStatus : SetStatus("b2", s)
    \/ \E u \in Users, b \in TrendingBooks : RecordInteraction(u, b, LIKE)
    \/ Tick
    \/ TickDb
    \/ \E days \in 0..MaxDays, limit \in Limits : get_trending_books(days, limit)
    \/ Return

SpecTrending == InitTrending /\ [][NextTrending]_vars

(***************************************************************************)
(* SpecSteps: the operations executed statement by statement, any          *)
(* statement may raise, and the writers also run while a call is           *)
(* suspended.  The books start completed; the books of StepBooks change    *)
(* status and the likes of StepLikes are recorded.                         *)
(***************************************************************************)
StepBooks == {"b2", "b3"}
StepLikes == {<<"u1", "b2">>, <<"u2", "b2">>, <<"u2", "b3">>}

NextSteps ==
    \/ \E b \in StepBooks, s \in BookStatus : SetStatus(b, s)
    \/ \E l \in StepLikes : RecordInteraction(l[1], l[2], LIKE)
    \/ \E b \in StepBooks, s \in BookStatus : SetStatusDuringCall(b, s)
    \/ \E l \in StepLikes : RecordInteractionDuringCall(l[1], l[2], LIKE)
    \/ \E user_id \in Users, limit \in Limits : start_personalized(user_id, limit, {})
    \/ \E book_id \in BookIds \cup {MissingId}, limit \in Limits :
            start_similar(book_id, limit)
    \/ \E limit \in Limits : start_popular(limit, NoCategory, {})
    \/ \E limit \in Limits : start_trending(MaxDays, limit)
    \/ execute
    \/ execute_raises
    \/ Return

SpecSteps == InitTrending /\ [][NextSteps]_vars

(***************************************************************************)
(* SpecPlain: the personalized and the similar-books operation over a      *)
(* catalogue in which book b2 has neither a category nor tags.             *)
(***************************************************************************)
PlainCatalogue ==
    [b \in BookIds |->
        IF b = "b2"
        THEN [owner |-> "u2", category |-> NoCategory, tags |-> {}]
        ELSE Catalogue[b]]

InitPlain ==
    /\ books = [b \in BookIds |->
                    [status |-> "draft", owner |-> PlainCatalogue[b].owner,
                     category |-> PlainCatalogue[b].category,
                     tags |-> PlainCatalogue[b].tags]]
    /\ interactions = {}
    /\ now = 0
    /\ dbNow = 0
    /\ call = NoCall
    /\ cache = NoCache
    /\ redis = NoRedis
    /\ wrapped = NoWrapped

NextPlain ==
    \/ \E b \in BookIds, s \in BookStatus : SetStatus(b, s)
    \/ \E u \in Users, b \in BookIds : \E k \in KindsOf(u) : RecordInteraction(u, b, k)
    \/ \E user_id \in Users, limit \in Limits :
            get_personalized_recommendations(user_id, limit, {})
    \/ \E book_id \in BookIds, limit \in Limits : get_similar_books(book_id, limit)
    \/ Return

SpecPlain == InitPlain /\ [][NextPlain]_vars

(***************************************************************************)
(* SpecCache: callers store the lists of get_personalized_recommendations  *)
(* in the cache while the book service changes the status of books.        *)
(***************************************************************************)
NextCache ==
    \/ \E book_id \in BookIds, status \in BookStatus : update_book(book_id, status)
    \/ \E user_id \in Users, limit \in Limits :
            get_personalized_recommendations(user_id, limit, {})
    \/ \E user_id \in Users : warm_recommendations(user_id)
    \/ \E user_id \in Users : expire(user_id)
    \/ \E user_id \in Users : invalidate_user(user_id)
    \/ \E book_id \in BookIds, user_id \in Users : invalidate_book(book_id, user_id)
    \/ \E user_id \in Users : invalidate_all_books(user_id)
    \/ Return

SpecCache == Init /\ [][NextCache]_vars

(***************************************************************************)
(* SpecCombine: the combiners over all pairs of scorer outputs.            *)
(***************************************************************************)
NextCombine ==
    \/ /\ call.op = "none"
       /\ \E collab_recs \in ScoredLists(BookIds, CollabScores),
             content_recs \in ScoredLists(BookIds, ContentScores) :
               combine_recommendations(collab_recs, content_recs)
    \/ /\ call.op = "none"
       /\ \E source_book_id \in BookIds :
           \E content_similar \in ScoredLists(BookIds \ {source_book_id}, ContentScores),
              collab_similar \in ScoredLists(BookIds \ {source_book_id}, CollabScores) :
               combine_similar_books(content_similar, collab_similar, source_book_id)
    \/ Return

SpecCombine == InitTrending /\ [][NextCombine]_vars

(***************************************************************************)
(* SpecWide: a catalogue of six completed books, more than the four rows a *)
(* scorer delivers for limit 1, with the interactions of two users.        *)
(***************************************************************************)
WideCatalogue ==
    [b \in WideBookIds |->
        IF b = "b1"
        THEN [owner |-> "u1", category |-> "c1", tags |-> {"t1"}]
        ELSE [owner |-> "u2", category |-> NoCategory, tags |-> {"t1"}]]

\* the interactions the users record over the wide catalogue
WideRows == {<<"u1", "b1", "like">>, <<"u2", "b1", "like">>, <<"u2", "b2", "like">>,
             <<"u2", "b2", "download">>, <<"u1", "b3", "view">>, <<"u2", "b3", "like">>}

\* the books that change status in this specification
WideStatusBooks == {"b6"}

InitWide ==
    /\ books = [b \in WideBookIds |->
                    [status |-> COMPLETED, owner |-> WideCatalogue[b].owner,
                     category |-> WideCatalogue[b].category,
                     tags |-> WideCatalogue[b].tags]]
    /\ interactions = {}
    /\ now = 0
    /\ dbNow = 0
    /\ call = NoCall
    /\ cache = NoCache
    /\ redis = NoRedis
    /\ wrapped = NoWrapped

NextWide ==
    \/ \E b \in WideStatusBooks, s \in BookStatus : SetStatus(b, s)
    \/ \E r \in WideRows : RecordInteraction(r[1], r[2], r[3])
    \/ \E user_id \in Users, limit \in Limits, exclude_book_ids \in ExcludeSets :
            get_personalized_recommendations(user_id, limit, exclude_book_ids)
    \/ \E book_id \in WideBookIds, limit \in Limits : get_similar_books(book_id, limit)
    \/ Return

SpecWide == InitWide /\ [][NextWide]_vars

(***************************************************************************)
(* SpecCached: calls of a decorated function over a store that other       *)
(* clients write and whose keys expire.                                    *)
(***************************************************************************)
NextCached ==
    \/ \E key \in CacheKeys, service \in BOOLEAN, skip \in BOOLEAN,
          func \in FuncResults \cup {Raises}, read_fault \in BOOLEAN,
          write_fault \in BOOLEAN :
            wrapper(key, service, skip, func, read_fault, write_fault)
    \/ wrapper_return
    \/ \E key \in CacheKeys, raw \in RawValues : setex(key, raw)
    \/ \E key \in CacheKeys : expire_key(key)

SpecCached == Init /\ [][NextCached]_vars

TypeOK ==
    /\ DOMAIN books \in {BookIds, WideBookIds}
    /\ \A b \in DOMAIN books : books[b] \in BookRow
    /\ interactions \subseteq InteractionRow
    /\ UniqueUserBookType(interactions)
    /\ now \in 0..MaxTime
    /\ dbNow \in 0..MaxTime
    /\ \A u \in Users : cache[u].present \in BOOLEAN

(***************************************************************************)
(* Properties.  `call` is the outcome of the last call of the engine; the  *)
(* repository it read is the current one, since no writer runs before the  *)
(* caller has taken the list.                                              *)
(***************************************************************************)
Returned == Range(call.result)

Personalized == call.op = "get_personalized_recommendations"

HasInteraction(u) == \E i \in interactions : i.user = u

Likes(u, b) == \E i \in interactions : i.user = u /\ i.book = b /\ i.kind = LIKE

InteractionCount(b) == Cardinality({i \in interactions : i.book = b})

\* C1: no book returned by get_personalized_recommendations(U, ...) is owned
\* by U, whether or not U has interactions.
C1_NoSelfRecommendation ==
    Personalized => \A b \in Returned : books[b].owner # call.user

\* C2: no book whose id is in exclude_book_ids is returned by
\* get_personalized_recommendations (cold-start and hybrid path) or by
\* get_popular_books.
C2_ExclusionRespected ==
    call.op \in {"get_personalized_recommendations", "get_popular_books"}
        => Returned \cap call.exclude = {}

\* a hybrid call that returns a book while a completed book of another owner,
\* liked by the similar user, is excluded
C2_Witness ==
    /\ Personalized
    /\ HasInteraction(call.user)
    /\ call.result # <<>>
    /\ \E b \in call.exclude :
        /\ Completed(b)
        /\ books[b].owner # call.user
        /\ \E v \in Users \ {call.user} : Likes(v, b)
    /\ \E v \in Users \ {call.user}, b \in BookIds : Likes(call.user, b) /\ Likes(v, b)

\* C3: every book returned by any of the four public operations has status
\* completed in the repository the operation read.
C3_StatusFilter ==
    call.op # "none" => \A b \in Returned : books[b].status = "completed"

\* a call that returns a book while a draft book has more interactions than
\* the returned one
C3_Witness ==
    /\ call.op = "get_trending_books"
    /\ call.result # <<>>
    /\ \E d \in BookIds :
        /\ books[d].status = "draft"
        /\ InteractionCount(d) > InteractionCount(call.result[1])

\* C4: a user without any interaction gets the list get_popular_books(limit,
\* category=None, exclude_ids) returns on the same repository; a user with at
\* least one interaction of any kind does not reach the popularity ranker.
C4_ColdStart ==
    Personalized =>
        IF HasInteraction(call.user)
        THEN "popular_books" \notin Range(call.queries)
        ELSE /\ call.queries = <<"user_interactions", "popular_books">>
             /\ \E order \in RowOrders :
                    call.result =
                        _get_popular_books(call.limit, call.exclude, NoCategory, order)

\* a user without interactions gets two books, the one with more interactions
\* first
C4_Witness ==
    /\ Personalized
    /\ ~ HasInteraction(call.user)
    /\ Len(call.result) = 2
    /\ InteractionCount(call.result[1]) > InteractionCount(call.result[2])

\* a user whose only interactions are views asks for recommendations while a
\* completed book has interactions
C4_WitnessViewOnly ==
    /\ Personalized
    /\ HasInteraction(call.user)
    /\ \A i \in interactions : i.user = call.user => i.kind = "view"
    /\ \E b \in BookIds : Completed(b) /\ InteractionCount(b) > 0

\* C5: the lists returned by get_personalized_recommendations (hybrid path)
\* and get_similar_books are ordered by descending combined score: for
\* positions i < j the score of result[i] is not lower than that of result[j].
C5_RankingOrder ==
    (call.op \in {"get_personalized_recommendations", "get_similar_books"}
        /\ "popular_books" \notin Range(call.queries))
    => \A i, j \in 1..Len(call.result) :
            i < j => call.scores[call.result[i]] >= call.scores[call.result[j]]

\* a hybrid call returns two books of different combined score
C5_Witness ==
    /\ Personalized
    /\ "collab_candidates" \in Range(call.queries)
    /\ Len(call.result) >= 2
    /\ call.scores[call.result[1]] > call.scores[call.result[Len(call.result)]]

StrongInteraction(u, b) ==
    \E i \in interactions : i.user = u /\ i.book = b /\ i.kind \in {"like", "download"}

\* the books either scorer can put forward for user u, before any LIMIT
CandidateBooks(u, exclude) ==
    {b \in BookIds :
        /\ books[b].status = "completed"
        /\ books[b].owner # u
        /\ b \notin exclude
        /\ \/ \E v \in Users \ {u}, a \in BookIds :
                StrongInteraction(u, a) /\ StrongInteraction(v, a) /\ StrongInteraction(v, b)
           \/ /\ \E i \in interactions : i.user = u /\ books[i.book].status = "completed"
              /\ ~ \E i \in interactions : i.user = u /\ i.book = b}

\* C6: if U liked B and another user V liked both B and a completed book C
\* that U does not own and that is not excluded, then C is a collaborative
\* candidate with raw score at least 1 and, when limit is at least the number
\* of candidates, C is in get_personalized_recommendations(U, limit).
C6_ScenarioB ==
    Personalized =>
        \A B \in BookIds, C \in BookIds, V \in Users \ {call.user} :
            ( /\ B # C
              /\ Likes(call.user, B)
              /\ Likes(V, B)
              /\ Likes(V, C)
              /\ books[C].status = "completed"
              /\ books[C].owner # call.user
              /\ C \notin call.exclude
              /\ call.limit >= Cardinality(CandidateBooks(call.user, call.exclude)) )
            => /\ \A order \in RowOrders :
                    ScoreIn(_collaborative_filtering(call.user, call.limit * 2,
                                                     call.exclude, order).rows, C) >= 1
               /\ C \in Returned

\* the books get_popular_books may return
EligiblePopular(category, exclude) ==
    {b \in BookIds :
        /\ books[b].status = "completed"
        /\ (category # NoCategory => books[b].category = category)
        /\ b \notin exclude}

C10_SimilarMissingBook ==
    (call.op = "get_similar_books" /\ call.book \notin BookIds)
        => /\ call.result = <<>>
           /\ call.error = "none"
           /\ call.queries = <<"source_book">>

\* the missing id is looked up with a positive limit while completed books
\* with likes exist
C10_Witness ==
    /\ call.op = "get_similar_books"
    /\ call.book = MissingId
    /\ call.limit >= 1
    /\ \E b \in BookIds, u \in Users : Completed(b) /\ Likes(u, b)

\* the interactions on b stamped within [now - days, now]
InWindowCount(b, days) ==
    Cardinality({i \in interactions :
                    i.book = b /\ now - days <= i.created_at /\ i.created_at <= now})

\* the interactions on b stamped at now - days or later
SinceCutoffCount(b, days) ==
    Cardinality({i \in interactions : i.book = b /\ i.created_at >= now - days})

\* C8: get_trending_books(days, limit) returns only completed books with at
\* least one interaction stamped within [now - days, now], in non-increasing
\* order of the number of such interactions, at most `limit` of them; an
\* interaction older than now - days or later than now never counts.
C8_TrendingWindow ==
    (call.op = "get_trending_books" /\ call.days >= 1) =>
        /\ Len(call.result) <= call.limit
        /\ \A b \in Returned :
                books[b].status = "completed" /\ InWindowCount(b, call.days) >= 1
        /\ \A i, j \in 1..Len(call.result) :
                i < j => InWindowCount(call.result[i], call.days)
                            >= InWindowCount(call.result[j], call.days)

\* C8 as amended: the window has no upper end.  get_trending_books returns
\* exactly the first `limit` of the completed books with at least one
\* interaction stamped at now - days or later, ranked by the number of such
\* interactions descending; an older interaction never counts.
C8_TrendingSinceCutoff ==
    call.op = "get_trending_books" =>
        LET eligible == {b \in BookIds :
                            /\ books[b].status = "completed"
                            /\ SinceCutoffCount(b, call.days) >= 1}
            n == Len(call.result)
        IN  /\ n = Min(call.limit, Cardinality(eligible))
            /\ Returned \subseteq eligible
            /\ \A i, j \in 1..n : i # j => call.result[i] # call.result[j]
            /\ \A i, j \in 1..n :
                    i < j => SinceCutoffCount(call.result[i], call.days)
                                >= SinceCutoffCount(call.result[j], call.days)
            /\ \A b \in eligible \ Returned, i \in 1..n :
                    SinceCutoffCount(call.result[i], call.days)
                        >= SinceCutoffCount(b, call.days)

\* with days >= 1, a completed book whose interactions are all older than
\* now - days is left out, and the books returned differ in their counts
C8_Witness ==
    /\ call.op = "get_trending_books"
    /\ call.days >= 1
    /\ Len(call.result) = 2
    /\ SinceCutoffCount(call.result[1], call.days) > SinceCutoffCount(call.result[2], call.days)
    /\ \E b \in BookIds \ Returned :
        /\ Completed(b)
        /\ SinceCutoffCount(b, call.days) = 0
        /\ \E i \in interactions : i.book = b /\ i.created_at < now - call.days

\* C9: a public operation called with a non-positive limit, and
\* get_trending_books called with non-positive days, ends in an
\* InvalidArgument failure before any statement is executed.
C9_ArgumentValidation ==
    ( /\ call.op # "none"
      /\ \/ call.limit <= 0
         \/ call.op = "get_trending_books" /\ call.days <= 0 )
    => /\ call.error = "InvalidArgument"
       /\ call.queries = <<>>

SimilarBooks == call.op = "get_similar_books"

\* C11: the list returned by get_similar_books(B, limit) never contains B,
\* for every existing book B and every limit.
C11_SourceNotOwnNeighbour ==
    (SimilarBooks /\ call.book \in BookIds) => call.book \notin Returned

\* a completed source book with a category and a tag, which would get the
\* highest content score against itself, has a neighbour returned
C11_Witness ==
    /\ SimilarBooks
    /\ call.book \in BookIds
    /\ Completed(call.book)
    /\ books[call.book].category # NoCategory
    /\ books[call.book].tags # {}
    /\ call.limit >= 1
    /\ call.result # <<>>

\* C12: for every positive limit each of the four public operations returns
\* a list of at most `limit` books.
C12_Truncation ==
    (call.op # "none" /\ call.limit >= 1) => Len(call.result) <= call.limit

\* a hybrid call in which more books are scored than the limit admits returns
\* exactly `limit` books
C12_Witness ==
    /\ Personalized
    /\ HasInteraction(call.user)
    /\ call.limit >= 1
    /\ Cardinality(DOMAIN call.scores) > call.limit
    /\ Len(call.result) = call.limit

\* C13: on a fixed repository a second invocation of the same operation with
\* the same arguments returns the same books in the same order, also when
\* candidates have equal scores or counts and a limit cuts through the tie.
C13_Determinism ==
    call.op # "none" =>
        \A order \in RowOrders : Again(call, order).result = call.result

\* C14: a call of a public operation, on any path, leaves the books and the
\* interactions as they were, and nothing of the call is left once the caller
\* has the list.
C14_ReadOnly ==
    [][ /\ (call.op = "none" /\ call'.op # "none") =>
            /\ books' = books
            /\ interactions' = interactions
        /\ call.op # "none" =>
            /\ books' = books
            /\ interactions' = interactions
            /\ call' = NoCall ]_vars

\* a hybrid call has returned books from a repository with interactions
C14_Witness ==
    /\ Personalized
    /\ HasInteraction(call.user)
    /\ call.result # <<>>
    /\ Cardinality(interactions) >= 2

\* C15: when writers run between the statements of one call of
\* get_personalized_recommendations or get_similar_books, the call ends as it
\* would end if it ran without suspension on one of the repositories that
\* existed between its start and its return.
C15_PointInTime ==
    ( /\ call.op \in {"get_personalized_recommendations", "get_similar_books"}
      /\ call.pc = "done"
      /\ call.failed = "none" )
    => Ending(call) \in call.atomic \cup AtomicEndings(call)

\* C16: when a statement of a public operation fails, the operation ends
\* with that error: it returns no list, the failed statement is the last one
\* it issued, and nothing is left for the call to do but to hand the error to
\* the caller.
C16_FailuresPropagate ==
    [][ /\ call'.failed # "none" =>
            /\ call'.error = "RepositoryFailure"
            /\ call'.result = <<>>
            /\ call'.pc = "done"
            /\ call'.queries[Len(call'.queries)] = call'.failed
        /\ call.failed # "none" =>
            /\ call' = NoCall
            /\ UNCHANGED <<books, interactions>> ]_vars

\* the last statement of a hybrid call fails after the collaborative scorer
\* has delivered candidates
C16_Witness ==
    /\ Personalized
    /\ call.failed = "content_candidates"
    /\ call.locals.collab_recs # <<>>

\* the books user u interacted with carry neither a category nor a tag
NoReference(u) ==
    \A i \in interactions :
        i.user = u => books[i.book].category = NoCategory /\ books[i.book].tags = {}

\* C17: get_personalized_recommendations raises no error and returns the
\* cold-start (popularity) ranking when the user has no interactions, and
\* also when the user has interactions but the books interacted with yield
\* no category-or-tag reference.
C17_NoSignalFallback ==
    (Personalized /\ NoReference(call.user)) =>
        /\ call.error = "none"
        /\ \E order \in RowOrders :
                call.result = _get_popular_books(call.limit, call.exclude, NoCategory, order)

\* C18: after a book's status, category or tags change, or after a new
\* interaction is recorded for a user, the cached recommendations entry of
\* the affected user is removed: the cache never holds a list computed before
\* such a change.
C18_CacheInvalidation ==
    \A u \in Users : cache[u].present => ~ cache[u].outdated

\* the scores of the double-precision product sums, in units of 1/40
Exact64(collab, content) == 4 * (6 * collab + 4 * content)
Exact55(content, collab) == 4 * (5 * content + 5 * collab)

\* C19: the ranking key of a book is wc * collab(b) + wt * content(b), computed
\* in double precision, where collab(b) and content(b) are the sub-scores of
\* b in the two input lists (0 when b is absent from a list) and (wc, wt) is
\* (0.6, 0.4) in _combine_recommendations and (0.5, 0.5) in
\* _combine_similar_books; a book of both lists has the sum of both
\* contributions, every key is >= 0, and the output is ordered by the key.
C19_CombinedScore ==
    /\ call.op = "_combine_recommendations" =>
        LET collab(b) == ScoreIn(call.locals.collab_recs, b)
            content(b) == ScoreIn(call.locals.content_recs, b)
        IN  /\ DOMAIN call.scores = Range(BooksOf(call.locals.collab_recs))
                                        \cup Range(BooksOf(call.locals.content_recs))
            /\ Returned = DOMAIN call.scores
            /\ \A b \in DOMAIN call.scores :
                /\ call.scores[b] = Exact64(collab(b), content(b))
                                        + UlpOffset(collab(b), content(b))
                /\ call.scores[b] >= 0
            /\ \A i, j \in 1..Len(call.result) :
                    i < j => call.scores[call.result[i]] >= call.scores[call.result[j]]
    /\ call.op = "_combine_similar_books" =>
        LET collab(b) == ScoreIn(call.locals.collab_similar, b)
            content(b) == ScoreIn(call.locals.content_similar, b)
        IN  /\ DOMAIN call.scores = Range(BooksOf(call.locals.collab_similar))
                                        \cup Range(BooksOf(call.locals.content_similar))
            /\ Returned = DOMAIN call.scores
            /\ \A b \in DOMAIN call.scores :
                /\ call.scores[b] = Exact55(content(b), collab(b))
                /\ call.scores[b] >= 0
            /\ \A i, j \in 1..Len(call.result) :
                    i < j => call.scores[call.result[i]] >= call.scores[call.result[j]]

\* a book of both lists, with a count of 1 and both bonuses, is ranked first,
\* ahead of a book that only the collaborative list has, with a count of 2
C19_Witness ==
    /\ call.op = "_combine_recommendations"
    /\ Len(call.result) >= 2
    /\ ScoreIn(call.locals.collab_recs, call.result[1]) = 1
    /\ ScoreIn(call.locals.content_recs, call.result[1]) = 8
    /\ \E b \in Returned :
        /\ ScoreIn(call.locals.collab_recs, b) = 2
        /\ ScoreIn(call.locals.content_recs, b) = 0

\* C20: a book without collaborative count that matches neither the category
\* bonus nor the tag bonus (combined score 0) is not in the list returned by
\* the hybrid path of get_personalized_recommendations or by
\* get_similar_books, even when fewer than `limit` scored candidates exist.
C20_ZeroScoreNotReturned ==
    (call.op \in {"get_personalized_recommendations", "get_similar_books"}
        /\ "popular_books" \notin Range(call.queries))
    => \A b \in Returned : call.scores[b] > 0

\* no book occurs twice in the sequence
Distinct(seq) == \A i, j \in 1..Len(seq) : i # j => seq[i] # seq[j]

\* C21: each book id occurs at most once in the list returned by
\* get_personalized_recommendations and by get_similar_books, also when the
\* same book is a candidate of both scorers.
C21_NoDuplicates ==
    call.op \in {"get_personalized_recommendations", "get_similar_books"}
        => Distinct(call.result)

\* the completed books user u has an interaction with
ReferenceBooks(u) ==
    {b \in BookIds : books[b].status = "completed"
                        /\ \E i \in interactions : i.user = u /\ i.book = b}

\* 3.0 for a category of the reference books, plus 5.0 for a shared tag
BonusSum(b, reference) ==
    (IF \E a \in reference : books[a].category # NoCategory
                                /\ books[a].category = books[b].category
     THEN 3 ELSE 0)
    + (IF \E a \in reference : books[a].tags \cap books[b].tags # {}
       THEN 5 ELSE 0)

\* the rows carry the bonus sum against the reference, in descending order
BonusRows(rows, reference, values) ==
    /\ \A n \in 1..Len(rows) :
        /\ rows[n].score = BonusSum(rows[n].book, reference)
        /\ rows[n].score \in values
    /\ \A n, m \in 1..Len(rows) : n < m => rows[n].score >= rows[m].score

\* the rows of the content scorer in the call whose outcome is in `call`
ContentRows(order) ==
    IF Personalized
    THEN _content_based_filtering(call.user, call.limit * 2, call.exclude, order).rows
    ELSE _find_content_similar_books(call.book, call.limit * 2, order).rows

\* the reference of the content scorer in that call
ContentReference ==
    IF Personalized THEN ReferenceBooks(call.user) ELSE {call.book}

HybridOrSimilar ==
    \/ Personalized /\ HasInteraction(call.user)
    \/ SimilarBooks /\ call.book \in BookIds

\* C22: in both call shapes the content score of a returned candidate is 3.0
\* if its category is in the reference category set plus 5.0 if its tags
\* intersect the reference tag set; it is 3, 5 or 8, and the scorer ranks a
\* tag-only match above a category-only match.
C22_ContentScore ==
    HybridOrSimilar =>
        \A order \in RowOrders : BonusRows(ContentRows(order), ContentReference, {3, 5, 8})

\* C23: in both call shapes, if the reference books carry no category and no
\* tag, the content scorer returns the empty list and issues no statement
\* that scores candidates.
C23_EmptyReference ==
    ( /\ HybridOrSimilar
      /\ \A a \in ContentReference :
            books[a].category = NoCategory /\ books[a].tags = {} )
    => /\ \A order \in RowOrders : ContentRows(order) = <<>>
       /\ "content_candidates" \notin Range(call.queries)
       /\ "content_similar" \notin Range(call.queries)

\* the users other than u with a like or download on a book u liked or
\* downloaded
SimilarUsers(u) ==
    {v \in Users \ {u} :
        \E a \in BookIds : StrongInteraction(u, a) /\ StrongInteraction(v, a)}

\* the rows of the collaborative scorer in the personalized call whose outcome
\* is in `call`
CollabRows(order) ==
    _collaborative_filtering(call.user, call.limit * 2, call.exclude, order).rows

\* C24: the raw score of a collaborative candidate is the number of similar
\* users who liked or downloaded it, each similar user counted once per book;
\* candidates are completed, not owned by the user and not excluded, and come
\* in descending score order.
C24_CollaborativeRawScore ==
    (Personalized /\ HasInteraction(call.user)) =>
        \A order \in RowOrders :
            LET rows == CollabRows(order)
            IN  /\ \A n \in 1..Len(rows) :
                    /\ rows[n].score =
                            Cardinality({v \in SimilarUsers(call.user) :
                                            StrongInteraction(v, rows[n].book)})
                    /\ books[rows[n].book].status = "completed"
                    /\ books[rows[n].book].owner # call.user
                    /\ rows[n].book \notin call.exclude
                /\ \A n, m \in 1..Len(rows) : n < m => rows[n].score >= rows[m].score

\* the like interactions on book c made by users who like book b
LikesByLikersOf(c, b) ==
    Cardinality({i \in interactions :
                    i.book = c /\ i.kind = "like" /\ Likes(i.user, b)})

\* C25: get_similar_books(B, limit) scores a candidate C by half its content
\* score plus half the number of like interactions on C made by users who
\* have a like interaction on B; other interaction kinds neither select those
\* users nor add to the score, and if nobody liked B the collaborative
\* contribution is empty.
C25_SimilarCollaborative ==
    (SimilarBooks /\ call.book \in BookIds) =>
        /\ call.error = "none"
        /\ \A c \in DOMAIN call.scores :
                call.scores[c] = Exact55(BonusSum(c, {call.book}),
                                         LikesByLikersOf(c, call.book))

\* the elements of seq whose ranking key is k, in the order of seq
WithKey(seq, key, k) == SelectSeq(seq, LAMBDA b : key[b] = k)

\* the order in which a combiner encounters the books: the personalized
\* combiner reads the collaborative list and then the content list, the
\* similar-book combiner the content list and then the books of the
\* collaborative list it has not seen
Encounter ==
    IF call.op = "_combine_recommendations"
    THEN BooksOf(call.locals.collab_recs) \o BooksOf(call.locals.content_recs)
    ELSE BooksOf(call.locals.content_similar)
            \o SelectSeq(BooksOf(call.locals.collab_similar),
                         LAMBDA b : /\ b # call.book
                                    /\ b \notin Range(BooksOf(call.locals.content_similar)))

\* C26: among the books whose combined scores (the doubles the combiner
\* computes) are equal, the output of a combiner keeps the encounter order:
\* collaborative list before content list for the personalized combiner,
\* content list before collaborative list for the similar-book combiner, and
\* within one list the order of the scorer.
C26_StableTieBreak ==
    call.op \in {"_combine_recommendations", "_combine_similar_books"} =>
        \A b \in DOMAIN call.scores :
            WithKey(call.result, call.scores, call.scores[b])
                = WithKey(Encounter, call.scores, call.scores[b])

\* a tie between two books of one list and a tie across the two lists, for
\* each combiner
C26_Witness ==
    /\ call.op = "_combine_recommendations"
    /\ Len(call.locals.collab_recs) = 2
    /\ Len(call.locals.content_recs) = 2
    /\ \E a \in Range(BooksOf(call.locals.collab_recs)),
          b \in Range(BooksOf(call.locals.content_recs)) :
            /\ a # b
            /\ b \notin Range(BooksOf(call.locals.collab_recs))
            /\ call.scores[a] = call.scores[b]

C26_WitnessSimilar ==
    /\ call.op = "_combine_similar_books"
    /\ \E a \in Range(BooksOf(call.locals.content_similar)),
          b \in Range(BooksOf(call.locals.collab_similar)) :
            /\ a # b
            /\ a \notin Range(BooksOf(call.locals.collab_similar))
            /\ b \notin Range(BooksOf(call.locals.content_similar))
            /\ call.scores[a] = call.scores[b]
            /\ call.result = <<a, b>>

\* C27: for a user with at least one interaction the personalized
\* recommendations hold no book the user has already liked or downloaded, and
\* no completed book the user has interacted with at all, through whichever
\* scorer the book is reached.
C27_ConsumedNotRecommended ==
    (Personalized /\ HasInteraction(call.user)) =>
        \A b \in Returned :
            ~ \E i \in interactions : i.user = call.user /\ i.book = b

\* the sub-scores of book b for the user of the call when the scorers deliver
\* every row: the limit passed is the number of books
FullCollab(b) ==
    ScoreIn(_collaborative_filtering(call.user, Cardinality(DOMAIN books), call.exclude,
                                     CHOOSE order \in RowOrders : TRUE).rows, b)

FullContent(b) ==
    ScoreIn(_content_based_filtering(call.user, Cardinality(DOMAIN books), call.exclude,
                                     CHOOSE order \in RowOrders : TRUE).rows, b)

FullScore(b) == WeightedSum64(FullCollab(b), FullContent(b))

Eligible(b) ==
    /\ books[b].status = "completed"
    /\ books[b].owner # call.user
    /\ b \notin call.exclude

\* C28: for a user with interactions, no eligible book (completed, not owned
\* by the user, not excluded) left out of the personalized recommendations
\* has a strictly higher full combined score 0.6 * collab + 0.4 * content,
\* computed without the scorers' own limits, than a book that is returned.
C28_TopKOptimal ==
    (Personalized /\ HasInteraction(call.user)) =>
        \A r \in Returned, x \in DOMAIN books \ Returned :
            Eligible(x) => FullScore(x) <= FullScore(r)

\* the other wording of C28: the ranking key of each returned book is its
\* full combined score
C28_KeyIsFullScore ==
    (Personalized /\ HasInteraction(call.user)) =>
        \A r \in Returned : call.scores[r] = FullScore(r)

\* C29: on a fixed repository with a fixed order of the database for equal
\* keys, for limits 0 < k < m the list of get_personalized_recommendations(U, k)
\* is a prefix of the list of get_personalized_recommendations(U, m), and the
\* list of get_similar_books(B, k) is a prefix of the list of
\* get_similar_books(B, m).
C29_PrefixConsistency ==
    /\ Personalized =>
        \A order \in RowOrders, k \in 1..(call.limit - 1) :
            personalized_outcome(call.user, call.limit, call.exclude, order) = call =>
                personalized_outcome(call.user, k, call.exclude, order).result
                    = Take(call.result, k)
    /\ (SimilarBooks /\ call.error = "none") =>
        \A order \in RowOrders, k \in 1..(call.limit - 1) :
            similar_books_outcome(call.book, call.limit, order) = call =>
                similar_books_outcome(call.book, k, order).result
                    = Take(call.result, k)

\* a call that went through the cache
Decorated == wrapped.op = "wrapper" /\ wrapped.service /\ ~ wrapped.skip

\* the read delivered a value that is not None
Hit ==
    /\ ~ wrapped.read_fault
    /\ wrapped.before \in {"0", "[1]", "\"obj\""}

\* C30: a failure of the cache never reaches the caller of a decorated
\* function: when the read raises the call is a miss, when the write raises
\* the failure is ignored, and in both cases the function is called exactly
\* once and its result returned; a None result is never written; on a hit the
\* function is not called.
C30_CacheFailuresContained ==
    Decorated =>
        /\ wrapped.error \in {"none", "func"}
        /\ wrapped.error = "func" => wrapped.func = Raises /\ wrapped.calls = 1
        /\ (wrapped.read_fault /\ wrapped.func # Raises) =>
                wrapped.calls = 1 /\ wrapped.returned = wrapped.func
        /\ (wrapped.write_fault /\ ~ Hit /\ wrapped.func # Raises) =>
                wrapped.calls = 1 /\ wrapped.returned = wrapped.func
        /\ (wrapped.func = "None" \/ wrapped.stored = "null") =>
                wrapped.stored = wrapped.before
        /\ Hit => /\ wrapped.calls = 0
                  /\ wrapped.returned = loads(wrapped.before)
                  /\ wrapped.stored = wrapped.before

\* the read raises on a key that holds a value and the write raises too: the
\* function is called once and its result returned
C30_Witness ==
    /\ Decorated
    /\ wrapped.read_fault
    /\ wrapped.write_fault
    /\ wrapped.before = "0"
    /\ wrapped.func = "list"
    /\ wrapped.calls = 1
    /\ wrapped.returned = "list"
    /\ wrapped.error = "none"
    /\ redis[wrapped.key] = "0"

====
